---- MODULE Spec2Model ----
(***************************************************************************)
(* Model of DocumentAutomation (document_automation.py): one run of        *)
(* process_document, with the stages it calls, the files they read and     *)
(* write, and the RunResult dictionary it returns.                         *)
(*                                                                         *)
(* Strings that the code measures, trims or cuts are sequences of          *)
(* one-character strings; identifiers (paths, keys, addresses, message     *)
(* texts) are TLA+ strings.  An error message "prefix: cause" is the pair  *)
(* <<prefix, cause>>.                                                      *)
(***************************************************************************)
EXTENDS Integers, Sequences, FiniteSets, TLC

VARIABLES
    config,           \* self.config / self.email_config
    caller,           \* who runs the stages: process_document, or the page's function
    stdout,           \* the encoding of sys.stdout, where process_document prints
    gemini_response,  \* what the summarization service answers in this execution
    run,              \* docx_path and clock reading of the invocation in progress
    other_run,        \* the other invocation of process_document, when there is one
    recipient_email,  \* argument of process_document
    send_email,       \* argument of process_document
    fs,               \* the filesystem: path -> content, for the paths that exist
    pc,               \* position of the run inside process_document
    results,          \* the results dictionary (RunResult); under the page,
                      \* st.session_state.results, the list of records stored
    text,             \* local of process_document
    summary,          \* local of process_document
    elapsed,          \* time.time() - start_time inside the remote polling loop
    job_status,       \* last decoded poll response of the remote strategy
    log               \* stage starts/ends and external calls, in order

(* What no step of a stage assigns. *)
fixed == <<config, caller, stdout, gemini_response, run, other_run>>

vars == <<fixed, recipient_email, send_email, fs, pc, results, text, summary,
          elapsed, job_status, log>>

----------------------------------------------------------------------------
(* Bounds of the model *)

MaxPages == 2
MaxLatency == 10
MaxPad == 2
MaxOver == 2
MaxOverlayPages == 4
MaxParagraphs == 3

(* Program constants *)

max_wait == 60
PollSleep == 2
SummaryCap == 500
SummaryKeep == 497

None == "None"

Truthy(v) == v \notin {None, ""}

(* The characters str.strip() removes (str.isspace) up to U+00FF.  The seven
   last have no escape in a string: each is the character itself, U+000B,
   U+001C, U+001D, U+001E, U+001F, U+0085 and U+00A0. *)
VerticalTab == ""
FileSeparator == ""
GroupSeparator == ""
RecordSeparator == ""
UnitSeparator == ""
NextLine == ""
NoBreakSpace == " "

Whitespace ==
    {" ", "\n", "\t", "\r", "\f", VerticalTab, FileSeparator, GroupSeparator,
     RecordSeparator, UnitSeparator, NextLine, NoBreakSpace}

----------------------------------------------------------------------------
(* Paths, as <<directory, name parts...>>.  filename = Path(docx_path).stem,
   timestamp = the clock reading at the start of the run. *)

Stem(path) == path[2]

DocxPath == run.docx_path
QrPath == <<"output", Stem(DocxPath), "_qr_", run.timestamp, ".png">>
TempPdf == <<"output", Stem(DocxPath), "_temp_", run.timestamp, ".pdf">>
FinalPdf == <<"output", Stem(DocxPath), "_final_", run.timestamp, ".pdf">>
(* Faulty variant of GeneratedPdf: the converter writes over its input. *)
GeneratedPdfInPlace == DocxPath

GeneratedPdf == <<"output", Stem(DocxPath), ".pdf">>

----------------------------------------------------------------------------
(* Error message texts *)

ExtractPrefix == "Error extracting text from Word document"
SummaryPrefix == "Error generating summary with Gemini"
QrPrefix == "Error generating QR code"
CloudPrefix == "Error converting to PDF with CloudConvert"
(* Faulty variant of LocalPrefix: the local converter reports like the remote one. *)
LocalPrefixOfRemote == "Error converting to PDF with CloudConvert"

LocalPrefix == "Error converting to PDF"
NotFoundMessage == "LibreOffice not found. Please install LibreOffice"
OverlayPrefix == "Error adding QR code to PDF"
EmailPrefix == "Error sending email"

CloudFailedCause == "CloudConvert conversion failed"
CloudNoKeyCause == "CloudConvert API key not configured"
LocalFailedCause == "LibreOffice conversion failed"
EmailConfigCause == "Email configuration incomplete"

----------------------------------------------------------------------------
(* String helpers: str.strip, slicing, '\n'.join *)

RECURSIVE lstrip(_)
lstrip(s) ==
    IF s = <<>> THEN <<>>
    ELSE IF Head(s) \in Whitespace THEN lstrip(Tail(s)) ELSE s

RECURSIVE rstrip(_)
rstrip(s) ==
    IF s = <<>> THEN <<>>
    ELSE IF s[Len(s)] \in Whitespace THEN rstrip(SubSeq(s, 1, Len(s) - 1)) ELSE s

strip(s) == rstrip(lstrip(s))

Prefix(s, n) == SubSeq(s, 1, IF Len(s) < n THEN Len(s) ELSE n)

RECURSIVE join(_, _)
join(sep, parts) ==
    IF parts = <<>> THEN <<>>
    ELSE IF Len(parts) = 1 THEN parts[1]
    ELSE parts[1] \o sep \o join(sep, Tail(parts))

Ellipsis == <<".", ".", ".">>

----------------------------------------------------------------------------
(* extract_text_from_docx: the paragraphs whose stripped text is non-empty,
   unstripped, joined by one newline. *)

(* Faulty variant of NonBlank: the paragraph is tested without stripping. *)
NonBlankUnstripped(paragraph) == paragraph # <<>>

NonBlank(paragraph) == strip(paragraph) # <<>>

extract_text_from_docx(paragraphs) ==
    join(<<"\n">>, SelectSeq(paragraphs, NonBlank))

(* Faulty variant of summarize_with_gemini: cuts at the limit, without a marker. *)
summarize_with_geminiNoMarker(raw) ==
    LET stripped == strip(raw)
    IN  IF Len(stripped) > SummaryCap
        THEN Prefix(stripped, SummaryCap)
        ELSE stripped

(* Faulty variant of summarize_with_gemini: truncates from 500 characters on. *)
summarize_with_geminiCutsAtCap(raw) ==
    LET stripped == strip(raw)
    IN  IF Len(stripped) >= SummaryCap
        THEN Prefix(stripped, SummaryKeep) \o Ellipsis
        ELSE stripped

(* summarize_with_gemini, after the service answered with `raw`. *)

summarize_with_gemini(raw) ==
    LET stripped == strip(raw)
    IN  IF Len(stripped) > SummaryCap
        THEN Prefix(stripped, SummaryKeep) \o Ellipsis
        ELSE stripped

----------------------------------------------------------------------------
(* Inputs of a run *)

Documents ==
    { [kind |-> "garbage"],
      [kind |-> "docx",
       paragraphs |-> << <<"a", " ">>, <<"\t", NoBreakSpace>>, <<"b">> >>] }

GeminiResponses ==
    { <<" ", VerticalTab, "\n">>,
      <<NoBreakSpace, "o", "k", "\n">> }

GeminiOutcomes ==
    {[kind |-> "error"]} \cup {[kind |-> "text", text |-> raw] : raw \in GeminiResponses}

EmailConfigs ==
    { [sender |-> "sender@example.org", password |-> "app-password"],
      [sender |-> None, password |-> "app-password"],
      [sender |-> "sender@example.org", password |-> ""] }

Configs ==
    [gemini_api_key : {None, "gm-key"}, cloudconvert_api_key : {None, "cc-key"},
     email : EmailConfigs]

Recipients == {None, "", "to@example.org"}

(* The source document converted to n pages. *)
PdfOf(n) == [kind |-> "pdf", pages |-> [i \in 1..n |-> <<DocxPath, i>>]]

Garbage == [kind |-> "garbage"]

Unbound == [status |-> "unbound", has_url |-> FALSE]

PollResponses == [status : {"processing", "finished", "error"}, has_url : BOOLEAN]

----------------------------------------------------------------------------
(* The stage order of process_document *)

StageOrder == <<"Extract", "Summarize", "Encode", "Convert", "Annotate", "Notify">>

Started(stage) == <<"start", stage>>
Succeeded(stage) == <<"ok", stage>>
Failed(stage) == <<"fail", stage>>
Called(service) == <<"call", service>>
Polled(status) == <<"call", "cloudconvert.poll", status>>
Downloaded(response) == <<"call", "cloudconvert.download", response>>
Invoked(strategy) == <<"strategy", strategy>>
Soffice(outcome) == <<"call", "soffice", outcome>>
Raised(message) == <<"raise", message>>

(* results[key] = value: a key already held takes the new value. *)
Record(key, value) ==
    [k \in DOMAIN results \cup {key} |-> IF k = key THEN value ELSE results[k]]

(* results[key] = value after a stage of process_document; the page keeps the
   value in a local and stores no record before the end. *)
Keep(key, value) == IF caller = "page" THEN results ELSE Record(key, value)

(* The record the page stores after the last stage. *)
PageRecord(email_sent) ==
    [success |-> TRUE, input_file |-> DocxPath, text_length |-> Len(text),
     summary |-> summary, qr_code_path |-> QrPath, final_pdf_path |-> FinalPdf,
     email_sent |-> email_sent]

FirstRun == [docx_path |-> <<"in", "contract", ".docx">>, timestamp |-> "T1"]

NoRun == [docx_path |-> <<>>]

(* Encodings of the standard output.  The progress messages process_document
   prints hold characters (U+1F4C4, U+2713, U+274C, ...) that utf-8 encodes and
   cp1252 or ascii do not: print raises UnicodeEncodeError there.  The page's
   function prints nothing. *)
Encodings == {"utf-8", "cp1252"}

CanPrint == caller = "page" \/ stdout = "utf-8"

(* The state in which process_document is entered. *)
InitWith(configs, outcomes, documents, recipients, flags) ==
    /\ config \in configs
    /\ caller = "process_document"
    /\ stdout \in Encodings
    /\ gemini_response \in outcomes
    /\ run = FirstRun
    /\ other_run = NoRun
    /\ recipient_email \in recipients
    /\ send_email \in flags
    /\ \E d \in documents : fs = (DocxPath :> d)
    /\ pc = "extract"
    /\ results = [success |-> FALSE, input_file |-> DocxPath]
    /\ text = <<>>
    /\ summary = <<>>
    /\ elapsed = 0
    /\ job_status = Unbound
    /\ log = <<>>

Init == InitWith(Configs, GeminiOutcomes, Documents, Recipients, BOOLEAN)

(* Faulty variant of Raise: records the exception's type name, not str(e). *)
RaiseTypeName(stage, message, entries) ==
    /\ results' = Record("error", <<"Exception", "">>)
    /\ pc' = "returned"
    /\ log' = log \o entries \o <<Failed(stage)>>

(* A print that the standard output cannot encode, inside the try block: the
   except clause records the error and prints in its turn, which raises again,
   now outside any handler.  The exception leaves process_document: the
   dictionary holds the error and is not returned. *)
PrintEscapes ==
    /\ results' = Record("error", <<"", "UnicodeEncodeError">>)
    /\ pc' = "escaped"
    /\ log' = log \o <<Raised("UnicodeEncodeError")>>

(* The except clause of process_document: results['error'] = str(e), print,
   return.  The page's except clause stores a record of its own, without the
   fields of the stages already done. *)
Raise(stage, message, entries) ==
    IF CanPrint
    THEN /\ results' = IF caller = "page"
                       THEN Append(results, [success |-> FALSE, input_file |-> DocxPath,
                                             error |-> message])
                       ELSE Record("error", message)
         /\ pc' = "returned"
         /\ log' = log \o entries \o <<Failed(stage)>>
    ELSE /\ results' = Record("error", message)
         /\ pc' = "escaped"
         /\ log' = log \o entries \o <<Failed(stage), Raised("UnicodeEncodeError")>>

(* requests.get and requests.post are called without a timeout: a server that
   accepts the connection and never answers blocks the call, and the run with
   it, for ever. *)
Blocked == <<"block", "requests">>

NoAnswer(entries) ==
    /\ pc' = "blocked"
    /\ log' = log \o entries \o <<Blocked>>
    /\ UNCHANGED results

(* smtplib.SMTP is constructed without a timeout: a server that accepts the
   connection and never sends its greeting blocks the constructor, and the run
   with it, for ever. *)
Waiting == <<"block", "smtplib">>

NoGreeting(entries) ==
    /\ pc' = "blocked"
    /\ log' = log \o entries \o <<Waiting>>
    /\ UNCHANGED results

(* Faulty variant of Extract: the length of the text is not recorded. *)
ExtractRecordsNothing ==
    /\ pc = "extract"
    /\ IF fs[DocxPath].kind = "docx"
       THEN /\ text' = extract_text_from_docx(fs[DocxPath].paragraphs)
            /\ results' = results
            /\ pc' = "summarize"
            /\ log' = log \o <<Started("Extract"), Succeeded("Extract")>>
       ELSE /\ Raise("Extract", <<ExtractPrefix, "PackageNotFoundError">>,
                     <<Started("Extract")>>)
            /\ UNCHANGED text
    /\ UNCHANGED <<fixed, recipient_email, send_email, fs, summary, elapsed, job_status>>

(* Step 1: the first progress message, extract_text_from_docx,
   results['text_length'] *)
Extract ==
    /\ pc = "extract"
    /\ IF ~CanPrint
       THEN /\ PrintEscapes
            /\ UNCHANGED text
       ELSE IF fs[DocxPath].kind = "docx"
       THEN /\ text' = extract_text_from_docx(fs[DocxPath].paragraphs)
            /\ results' = Keep("text_length", Len(text'))
            /\ pc' = "summarize"
            /\ log' = log \o <<Started("Extract"), Succeeded("Extract")>>
       ELSE /\ Raise("Extract", <<ExtractPrefix, "PackageNotFoundError">>,
                     <<Started("Extract")>>)
            /\ UNCHANGED text
    /\ UNCHANGED <<fixed, recipient_email, send_email, fs, summary, elapsed, job_status>>

(* __init__ creates self.model only when a Gemini key is configured. *)
ModelBuilt == Truthy(config.gemini_api_key)

(* Faulty variant of Summarize: a failure is swallowed and the run goes on with
   an empty summary. *)
SummarizeSwallowsFailure ==
    /\ pc = "summarize"
    /\ IF ~ModelBuilt
       THEN /\ summary' = <<>>
            /\ results' = Record("summary", summary')
            /\ pc' = "encode"
            /\ log' = log \o <<Started("Summarize"), Failed("Summarize")>>
       ELSE IF gemini_response.kind = "text"
       THEN /\ summary' = summarize_with_gemini(gemini_response.text)
            /\ results' = Record("summary", summary')
            /\ pc' = "encode"
            /\ log' = log \o <<Started("Summarize"), Called("gemini"),
                               Succeeded("Summarize")>>
       ELSE /\ summary' = <<>>
            /\ results' = Record("summary", summary')
            /\ pc' = "encode"
            /\ log' = log \o <<Started("Summarize"), Called("gemini"), Failed("Summarize")>>
    /\ UNCHANGED <<fixed, recipient_email, send_email, fs, text, elapsed, job_status>>

(* Step 2: summarize_with_gemini, results['summary'].  Without self.model the
   attribute lookup fails before any request is made. *)
Summarize ==
    /\ pc = "summarize"
    /\ IF ~ModelBuilt
       THEN /\ Raise("Summarize", <<SummaryPrefix, "AttributeError">>,
                     <<Started("Summarize")>>)
            /\ UNCHANGED summary
       ELSE IF gemini_response.kind = "text"
       THEN /\ summary' = summarize_with_gemini(gemini_response.text)
            /\ results' = Keep("summary", summary')
            /\ pc' = "encode"
            /\ log' = log \o <<Started("Summarize"), Called("gemini"),
                               Succeeded("Summarize")>>
       ELSE /\ Raise("Summarize", <<SummaryPrefix, "ServiceError">>,
                     <<Started("Summarize"), Called("gemini")>>)
            /\ UNCHANGED summary
    /\ UNCHANGED <<fixed, recipient_email, send_email, fs, text, elapsed, job_status>>

(* Step 3: generate_qr_code, results['qr_code_path'] *)
(* Faulty variant of QrCall: the extracted text is encoded. *)
QrCallOfText == <<"call", "qrserver", text, "300x300", "png", "L">>

QrCall == <<"call", "qrserver", summary, "300x300", "png", "L">>

(* Faulty variant of Encode: a failed request is issued a second time. *)
EncodeRetries ==
    /\ pc = "encode"
    /\ \/ \E body \in {[kind |-> "png", data |-> summary], Garbage} :
            /\ fs' = (QrPath :> body) @@ fs
            /\ results' = Record("qr_code_path", QrPath)
            /\ pc' = "convert"
            /\ log' = log \o <<Started("Encode"), QrCall, Succeeded("Encode")>>
       \/ /\ \E i \in 1..Len(log) : log[i] = QrCall
          /\ Raise("Encode", <<QrPrefix, "HTTPError">>, <<QrCall>>)
          /\ UNCHANGED fs
       \/ /\ \A i \in 1..Len(log) : log[i] # QrCall
          /\ log' = log \o <<Started("Encode"), QrCall>>
          /\ UNCHANGED <<fs, results, pc>>
    /\ UNCHANGED <<fixed, recipient_email, send_email, text, summary, elapsed, job_status>>

Encode ==
    /\ pc = "encode"
    /\ \/ \E body \in {[kind |-> "png", data |-> summary], Garbage} :
            /\ fs' = (QrPath :> body) @@ fs
            /\ results' = Keep("qr_code_path", QrPath)
            /\ pc' = "convert"
            /\ log' = log \o <<Started("Encode"), QrCall, Succeeded("Encode")>>
       \/ /\ Raise("Encode", <<QrPrefix, "HTTPError">>, <<Started("Encode"), QrCall>>)
          /\ UNCHANGED fs
       \/ /\ NoAnswer(<<Started("Encode"), QrCall>>)
          /\ UNCHANGED fs
    /\ UNCHANGED <<fixed, recipient_email, send_email, text, summary, elapsed, job_status>>

----------------------------------------------------------------------------
(* Step 4: convert_docx_to_pdf and its two strategies *)

(* Faulty variant of UseCloudConvert: the test of the key is inverted. *)
UseCloudConvertInverted == ~Truthy(config.cloudconvert_api_key)

(* convert_docx_to_pdf: the CloudConvert key decides the strategy. *)
UseCloudConvert == Truthy(config.cloudconvert_api_key)

Remove(files, path) == [p \in (DOMAIN files) \ {path} |-> files[p]]

Rename(files, from, to) == (to :> files[from]) @@ Remove(files, from)

(* Faulty variant of CloudCreateJob: a refused job request is followed by the
   upload all the same. *)
CloudCreateJobGoesOn ==
    /\ pc = "convert"
    /\ UseCloudConvert
    /\ \/ /\ pc' = "cc_upload"
          /\ log' = log \o <<Started("Convert"), Invoked("cloudconvert"),
                             Called("cloudconvert.jobs")>>
       \/ /\ pc' = "cc_upload"
          /\ log' = log \o <<Started("Convert"), Invoked("cloudconvert"),
                             Called("cloudconvert.jobs"), Failed("Convert")>>
    /\ UNCHANGED <<fixed, recipient_email, send_email, fs, results, text, summary, elapsed,
                   job_status>>

(* convert_docx_to_pdf_cloudconvert, Step 1: create the job. *)
CloudCreateJob ==
    /\ pc = "convert"
    /\ UseCloudConvert
    /\ IF ~Truthy(config.cloudconvert_api_key)
       THEN Raise("Convert", <<CloudPrefix, CloudNoKeyCause>>,
                  <<Started("Convert"), Invoked("cloudconvert")>>)
       ELSE \/ /\ pc' = "cc_upload"
               /\ log' = log \o <<Started("Convert"), Invoked("cloudconvert"),
                                  Called("cloudconvert.jobs")>>
               /\ UNCHANGED results
            \/ Raise("Convert", <<CloudPrefix, "HTTPError">>,
                     <<Started("Convert"), Invoked("cloudconvert"),
                       Called("cloudconvert.jobs")>>)
            \/ NoAnswer(<<Started("Convert"), Invoked("cloudconvert"),
                          Called("cloudconvert.jobs")>>)
    /\ UNCHANGED <<fixed, recipient_email, send_email, fs, text, summary, elapsed,
                   job_status>>

(* Step 2: upload the source bytes; start_time = time.time(). *)
CloudUpload ==
    /\ pc = "cc_upload"
    /\ \/ /\ pc' = "cc_poll"
          /\ elapsed' = 0
          /\ log' = log \o <<Called("cloudconvert.upload")>>
          /\ UNCHANGED results
       \/ /\ Raise("Convert", <<CloudPrefix, "HTTPError">>, <<Called("cloudconvert.upload")>>)
          /\ UNCHANGED elapsed
       \/ /\ NoAnswer(<<Called("cloudconvert.upload")>>)
          /\ UNCHANGED elapsed
    /\ UNCHANGED <<fixed, recipient_email, send_email, fs, text, summary, job_status>>

(* Faulty variant of CloudPoll: the status 'error' is not tested, the loop sleeps
   and polls again. *)
CloudPollIgnoresError ==
    /\ pc = "cc_poll"
    /\ elapsed < max_wait
    /\ \E latency \in {0, MaxLatency} :
        \/ /\ Raise("Convert", <<CloudPrefix, "HTTPError">>, <<Polled("HTTPError")>>)
           /\ elapsed' = 0
           /\ job_status' = Unbound
        \/ \E response \in PollResponses :
            IF response.status = "finished"
            THEN /\ pc' = "cc_download"
                 /\ job_status' = response
                 /\ elapsed' = elapsed + latency
                 /\ log' = log \o <<Polled(response.status)>>
                 /\ UNCHANGED results
            ELSE /\ pc' = "cc_poll"
                 /\ job_status' = response
                 /\ elapsed' = elapsed + latency + PollSleep
                 /\ log' = log \o <<Polled(response.status)>>
                 /\ UNCHANGED results
    /\ UNCHANGED <<fixed, recipient_email, send_email, fs, text, summary>>

(* Step 3: one iteration of the while loop: poll, then break, raise or sleep.
   elapsed and job_status are locals of the function: they end with it. *)
CloudPoll ==
    /\ pc = "cc_poll"
    /\ elapsed < max_wait
    /\ \E latency \in {0, MaxLatency} :
        \/ /\ Raise("Convert", <<CloudPrefix, "HTTPError">>, <<Polled("HTTPError")>>)
           /\ elapsed' = 0
           /\ job_status' = Unbound
        \/ /\ NoAnswer(<<Polled("no answer")>>)
           /\ UNCHANGED <<elapsed, job_status>>
        \/ \E response \in PollResponses :
            IF response.status = "finished"
            THEN /\ pc' = "cc_download"
                 /\ job_status' = response
                 /\ elapsed' = elapsed + latency
                 /\ log' = log \o <<Polled(response.status)>>
                 /\ UNCHANGED results
            ELSE IF response.status = "error"
            THEN /\ Raise("Convert", <<CloudPrefix, CloudFailedCause>>,
                          <<Polled(response.status)>>)
                 /\ elapsed' = 0
                 /\ job_status' = Unbound
            ELSE /\ pc' = "cc_poll"
                 /\ job_status' = response
                 /\ elapsed' = elapsed + latency + PollSleep
                 /\ log' = log \o <<Polled(response.status)>>
                 /\ UNCHANGED results
    /\ UNCHANGED <<fixed, recipient_email, send_email, fs, text, summary>>

(* The while condition is false: the loop ends without a break. *)
Expired == <<"while", "max_wait reached">>

CloudLoopExit ==
    /\ pc = "cc_poll"
    /\ ~(elapsed < max_wait)
    /\ pc' = "cc_download"
    /\ log' = log \o <<Expired>>
    /\ UNCHANGED <<fixed, recipient_email, send_email, fs, results, text, summary,
                   elapsed, job_status>>

(* Faulty variant of CloudDownload: the bytes are written under the source's
   base name, not at pdf_path. *)
CloudDownloadWrongPath ==
    /\ pc = "cc_download"
    /\ IF ~job_status.has_url
       THEN /\ Raise("Convert", <<CloudPrefix, "TypeError">>, <<>>)
            /\ UNCHANGED fs
       ELSE \/ /\ Raise("Convert", <<CloudPrefix, "HTTPError">>,
                        <<Downloaded([kind |-> "HTTPError"])>>)
               /\ UNCHANGED fs
            \/ \E content \in {PdfOf(n) : n \in 1..MaxPages} \cup {Garbage} :
               /\ fs' = (GeneratedPdf :> content) @@ fs
               /\ pc' = "overlay"
               /\ log' = log \o <<Downloaded(content), Succeeded("Convert")>>
               /\ UNCHANGED results
    /\ elapsed' = 0
    /\ job_status' = Unbound
    /\ UNCHANGED <<fixed, recipient_email, send_email, text, summary>>

(* Step 4: look the export URL up in the last poll response, download, write. *)
CloudDownload ==
    /\ pc = "cc_download"
    /\ \/ /\ IF ~job_status.has_url
             THEN /\ Raise("Convert", <<CloudPrefix, "TypeError">>, <<>>)
                  /\ UNCHANGED fs
             ELSE \/ /\ Raise("Convert", <<CloudPrefix, "HTTPError">>,
                              <<Downloaded([kind |-> "HTTPError"])>>)
                     /\ UNCHANGED fs
                  \/ \E content \in {PdfOf(n) : n \in 1..MaxPages} \cup {Garbage} :
                     /\ fs' = (TempPdf :> content) @@ fs
                     /\ pc' = "overlay"
                     /\ log' = log \o <<Downloaded(content), Succeeded("Convert")>>
                     /\ UNCHANGED results
          /\ elapsed' = 0
          /\ job_status' = Unbound
       \/ /\ job_status.has_url
          /\ NoAnswer(<<Downloaded([kind |-> "no answer"])>>)
          /\ UNCHANGED <<fs, elapsed, job_status>>
    /\ UNCHANGED <<fixed, recipient_email, send_email, text, summary>>

(* convert_docx_to_pdf_libreoffice: the tool writes <stem>.pdf into the output
   directory; the converter renames it to pdf_path when it exists. *)
(* What soffice leaves in the output directory: <stem>.pdf of n pages, or
   nothing (n = 0).  A run of the tool that ends with a non-zero status or is
   stopped at the timeout may have written its file; the converter does not
   look at it. *)
SofficeWrote(n) == IF n = 0 THEN fs ELSE (GeneratedPdf :> PdfOf(n)) @@ fs

ConvertLocal ==
    /\ pc = "convert"
    /\ ~UseCloudConvert
    /\ \/ /\ Raise("Convert", <<NotFoundMessage, "https://www.libreoffice.org/download/">>,
                   <<Started("Convert"), Invoked("libreoffice"), Soffice("FileNotFoundError")>>)
          /\ UNCHANGED fs
       \/ \E n \in 0..MaxPages :
          /\ Raise("Convert", <<LocalPrefix, "TimeoutExpired">>,
                   <<Started("Convert"), Invoked("libreoffice"), Soffice("TimeoutExpired")>>)
          /\ fs' = SofficeWrote(n)
       \/ \E n \in 0..MaxPages :
          /\ Raise("Convert", <<LocalPrefix, LocalFailedCause>>,
                   <<Started("Convert"), Invoked("libreoffice"), Soffice("non-zero exit")>>)
          /\ fs' = SofficeWrote(n)
       \/ \E n \in 1..MaxPages :
          /\ fs' = SofficeWrote(n)
          /\ pc' = "lo_exists"
          /\ log' = log \o <<Started("Convert"), Invoked("libreoffice"), Soffice("output")>>
          /\ UNCHANGED results
       \/ /\ pc' = "lo_exists"
          /\ log' = log \o <<Started("Convert"), Invoked("libreoffice"), Soffice("no output")>>
          /\ UNCHANGED <<fs, results>>
    /\ UNCHANGED <<fixed, recipient_email, send_email, text, summary, elapsed, job_status>>

(* After subprocess.run returned 0: the test generated_pdf.exists() and
   generated_pdf != pdf_path.  When it fails the converter returns pdf_path. *)
LocalFound ==
    /\ pc = "lo_exists"
    /\ IF GeneratedPdf \in DOMAIN fs /\ GeneratedPdf # TempPdf
       THEN /\ pc' = "lo_rename"
            /\ UNCHANGED log
       ELSE /\ pc' = "overlay"
            /\ log' = log \o <<Succeeded("Convert")>>
    /\ UNCHANGED <<fixed, recipient_email, send_email, fs, results, text, summary, elapsed,
                   job_status>>

(* generated_pdf.rename(pdf_path), return pdf_path.  The file found by the
   test may be gone by now, moved by another invocation: the rename raises
   FileNotFoundError, which the converter reports as a missing LibreOffice. *)
LocalRename ==
    /\ pc = "lo_rename"
    /\ IF GeneratedPdf \in DOMAIN fs
       THEN /\ fs' = Rename(fs, GeneratedPdf, TempPdf)
            /\ pc' = "overlay"
            /\ log' = log \o <<Succeeded("Convert")>>
            /\ UNCHANGED results
       ELSE /\ Raise("Convert", <<NotFoundMessage, "https://www.libreoffice.org/download/">>,
                     <<>>)
            /\ UNCHANGED fs
    /\ UNCHANGED <<fixed, recipient_email, send_email, text, summary, elapsed, job_status>>

----------------------------------------------------------------------------
(* Step 5: add_qr_to_pdf_header *)

OverlayLayer(image) == [caption |-> "Resumo", image |-> image]

(* Faulty variant of add_qr_to_pdf_header: only the first page is merged. *)
add_qr_to_pdf_headerFirstPage(pdf, image) ==
    LET overlay == OverlayLayer(image)
    IN  [kind |-> "pdf",
         pages |-> [page_num \in 1..Len(pdf.pages) |->
                       IF page_num = 1 THEN Append(pdf.pages[page_num], overlay)
                       ELSE pdf.pages[page_num]]]

add_qr_to_pdf_header(pdf, image) ==
    LET overlay == OverlayLayer(image)
    IN  [kind |-> "pdf",
         pages |-> [page_num \in 1..Len(pdf.pages) |-> Append(pdf.pages[page_num], overlay)]]

(* Faulty variant of Annotate: a failed overlay removes the converted document
   before it raises. *)
AnnotateUnwinds ==
    /\ pc = "overlay"
    /\ IF TempPdf \notin DOMAIN fs
       THEN /\ Raise("Annotate", <<OverlayPrefix, "FileNotFoundError">>, <<Started("Annotate")>>)
            /\ UNCHANGED fs
       ELSE IF fs[TempPdf].kind # "pdf"
       THEN /\ Raise("Annotate", <<OverlayPrefix, "PdfReadError">>, <<Started("Annotate")>>)
            /\ fs' = Remove(fs, TempPdf)
       ELSE IF QrPath \notin DOMAIN fs \/ fs[QrPath].kind # "png"
       THEN /\ Raise("Annotate", <<OverlayPrefix, "cannot identify image file">>,
                     <<Started("Annotate")>>)
            /\ fs' = Remove(fs, TempPdf)
       ELSE /\ fs' = (FinalPdf :> add_qr_to_pdf_header(fs[TempPdf], fs[QrPath])) @@ fs
            /\ results' = Record("final_pdf_path", FinalPdf)
            /\ pc' = "cleanup"
            /\ log' = log \o <<Started("Annotate"), Succeeded("Annotate")>>
    /\ UNCHANGED <<fixed, recipient_email, send_email, text, summary, elapsed, job_status>>

Annotate ==
    /\ pc = "overlay"
    /\ IF TempPdf \notin DOMAIN fs
       THEN /\ Raise("Annotate", <<OverlayPrefix, "FileNotFoundError">>, <<Started("Annotate")>>)
            /\ UNCHANGED fs
       ELSE IF fs[TempPdf].kind # "pdf"
       THEN /\ Raise("Annotate", <<OverlayPrefix, "PdfReadError">>, <<Started("Annotate")>>)
            /\ UNCHANGED fs
       ELSE IF QrPath \notin DOMAIN fs \/ fs[QrPath].kind # "png"
       THEN /\ Raise("Annotate", <<OverlayPrefix, "cannot identify image file">>,
                     <<Started("Annotate")>>)
            /\ UNCHANGED fs
       ELSE /\ fs' = (FinalPdf :> add_qr_to_pdf_header(fs[TempPdf], fs[QrPath])) @@ fs
            /\ results' = Keep("final_pdf_path", FinalPdf)
            /\ pc' = "cleanup"
            /\ log' = log \o <<Started("Annotate"), Succeeded("Annotate")>>
    /\ UNCHANGED <<fixed, recipient_email, send_email, text, summary, elapsed, job_status>>

(* Faulty variant of Cleanup: the code image is unlinked, not the converted
   document. *)
CleanupOfCodeImage ==
    /\ pc = "cleanup"
    /\ fs' = IF QrPath \in DOMAIN fs THEN Remove(fs, QrPath) ELSE fs
    /\ pc' = "email"
    /\ UNCHANGED <<fixed, recipient_email, send_email, results, text, summary, elapsed,
                   job_status, log>>

(* Faulty variant of Cleanup: the temporary file is left in place. *)
CleanupSkipped ==
    /\ pc = "cleanup"
    /\ pc' = "email"
    /\ UNCHANGED <<fixed, recipient_email, send_email, fs, results, text, summary, elapsed,
                   job_status, log>>

(* Clean up temp file: if temp_pdf.exists(): temp_pdf.unlink() *)
Cleanup ==
    /\ pc = "cleanup"
    /\ fs' = IF TempPdf \in DOMAIN fs THEN Remove(fs, TempPdf) ELSE fs
    /\ pc' = "email"
    /\ UNCHANGED <<fixed, recipient_email, send_email, results, text, summary, elapsed,
                   job_status, log>>

----------------------------------------------------------------------------
(* Step 6: send_email, then results['success'] = True *)

(* Faulty variant of ShouldNotify: the recipient is not looked at. *)
ShouldNotifyIgnoresRecipient == send_email

ShouldNotify == send_email /\ Truthy(recipient_email)

(* Faulty variant of EmailConfigured: the recipient is not looked at. *)
EmailConfiguredWithoutRecipient ==
    Truthy(config.email.sender) /\ Truthy(config.email.password)

EmailConfigured == Truthy(config.email.sender) /\ Truthy(config.email.password) /\ Truthy(recipient_email)

(* Faulty variant of SendEmail: email_sent is recorded before the message is
   sent, so it stays set when the send fails. *)
SendEmailMarksFirst ==
    /\ pc = "email"
    /\ ShouldNotify
    /\ IF ~EmailConfigured
       THEN Raise("Notify", <<EmailPrefix, EmailConfigCause>>, <<Started("Notify")>>)
       ELSE IF FinalPdf \notin DOMAIN fs
       THEN Raise("Notify", <<EmailPrefix, "FileNotFoundError">>, <<Started("Notify")>>)
       ELSE \/ /\ results' = Record("email_sent", TRUE) @@
                                ("error" :> <<EmailPrefix, "SMTPException">>)
               /\ pc' = "returned"
               /\ log' = log \o <<Started("Notify"), Called("smtp"), Failed("Notify")>>
            \/ /\ results' = [Record("email_sent", TRUE) EXCEPT !["success"] = TRUE]
               /\ pc' = "returned"
               /\ log' = log \o <<Started("Notify"), Called("smtp"), Succeeded("Notify")>>
            \/ NoGreeting(<<Started("Notify"), Called("smtp")>>)
    /\ UNCHANGED <<fixed, recipient_email, send_email, fs, text, summary, elapsed,
                   job_status>>

SendEmail ==
    /\ pc = "email"
    /\ ShouldNotify
    /\ IF ~EmailConfigured
       THEN Raise("Notify", <<EmailPrefix, EmailConfigCause>>, <<Started("Notify")>>)
       ELSE IF FinalPdf \notin DOMAIN fs
       THEN Raise("Notify", <<EmailPrefix, "FileNotFoundError">>, <<Started("Notify")>>)
       ELSE \/ Raise("Notify", <<EmailPrefix, "SMTPException">>,
                     <<Started("Notify"), Called("smtp")>>)
            \/ /\ IF caller = "page"
                  THEN /\ results' = Append(results, PageRecord(TRUE))
                       /\ pc' = "display"
                  ELSE /\ results' = [Record("email_sent", TRUE) EXCEPT !["success"] = TRUE]
                       /\ pc' = "returned"
               /\ log' = log \o <<Started("Notify"), Called("smtp"), Succeeded("Notify")>>
            \/ NoGreeting(<<Started("Notify"), Called("smtp")>>)
    /\ UNCHANGED <<fixed, recipient_email, send_email, fs, text, summary, elapsed,
                   job_status>>

SkipEmail ==
    /\ pc = "email"
    /\ ~ShouldNotify
    /\ IF caller = "page"
       THEN /\ results' = Append(results, PageRecord(FALSE))
            /\ pc' = "display"
       ELSE /\ results' = [results EXCEPT !["success"] = TRUE]
            /\ pc' = "returned"
    /\ UNCHANGED <<fixed, recipient_email, send_email, fs, text, summary, elapsed,
                   job_status, log>>

----------------------------------------------------------------------------

Next ==
    \/ Extract
    \/ Summarize
    \/ Encode
    \/ CloudCreateJob
    \/ CloudUpload
    \/ CloudPoll
    \/ CloudLoopExit
    \/ CloudDownload
    \/ ConvertLocal
    \/ LocalFound
    \/ LocalRename
    \/ Annotate
    \/ Cleanup
    \/ SendEmail
    \/ SkipEmail

Spec == Init /\ [][Next]_vars

(* The thread that executes process_document keeps running: a step it can take
   is taken.  A call that never returns is an outcome of the step that makes
   it (NoAnswer for the requests calls, NoGreeting for smtplib), after which
   the run takes no step. *)
FairSpec == Spec /\ WF_vars(Next)

----------------------------------------------------------------------------
(* The page's process_document (streamlit_app): the same stage methods in the
   same order on the same paths.  It stores one record when the stages are
   done, or one error record, and then shows the code image and opens the
   final document, inside the same try block: a failure there stores an error
   record after the record of the success.  The page starts only with a
   Gemini key configured. *)

Display ==
    /\ pc = "display"
    /\ \/ /\ QrPath \in DOMAIN fs
          /\ FinalPdf \in DOMAIN fs
          /\ pc' = "returned"
          /\ UNCHANGED <<results, log>>
       \/ Raise("Display", <<"", "Exception">>, <<>>)
    /\ UNCHANGED <<fixed, recipient_email, send_email, fs, text, summary, elapsed,
                   job_status>>

PageInit ==
    /\ config \in {c \in Configs : Truthy(c.gemini_api_key)}
    /\ caller = "page"
    /\ stdout \in Encodings
    /\ gemini_response \in GeminiOutcomes
    /\ run = FirstRun
    /\ other_run = NoRun
    /\ recipient_email \in Recipients
    /\ send_email \in BOOLEAN
    /\ \E d \in Documents : fs = (DocxPath :> d)
    /\ pc = "extract"
    /\ results = <<>>
    /\ text = <<>>
    /\ summary = <<>>
    /\ elapsed = 0
    /\ job_status = Unbound
    /\ log = <<>>

PageNext ==
    \/ Next
    \/ Display

PageSpec == PageInit /\ [][PageNext]_vars

----------------------------------------------------------------------------
(* The summarizer on answers around the length limit.  The answers are
   response.text values: a body whose characters depend on their position,
   with blanks inside, between two runs of whitespace. *)

Digits == <<"0", "1", "2", "3", "4", "5", "6", "7", "8", "9">>

BodyChar(i) == IF i % 7 = 0 THEN " " ELSE Digits[(i % 10) + 1]

Body(n) == [i \in 1..n |-> BodyChar(i)]

Pad(n) == [i \in 1..n |-> IF i % 2 = 1 THEN "\n" ELSE NoBreakSpace]

BodyLengths == {0, 1} \cup ((SummaryCap - MaxOver)..(SummaryCap + MaxOver))

LongResponses ==
    { Pad(lead) \o Body(n) \o Pad(trail) :
        lead \in 0..MaxPad, n \in BodyLengths, trail \in 0..MaxPad }

LongOutcomes == {[kind |-> "text", text |-> raw] : raw \in LongResponses}

PlainDocument ==
    [kind |-> "docx", paragraphs |-> << <<"a", " ">>, <<"\t", NoBreakSpace>>, <<"b">> >>]

PlainConfig ==
    [gemini_api_key |-> "gm-key", cloudconvert_api_key |-> None,
     email |-> [sender |-> "sender@example.org", password |-> "app-password"]]

SummarizeInit == InitWith({PlainConfig}, LongOutcomes, {PlainDocument}, {None}, {FALSE})

SummarizeNext ==
    \/ Extract
    \/ Summarize

SummarizeSpec == SummarizeInit /\ [][SummarizeNext]_vars

----------------------------------------------------------------------------
(* Properties *)

IsStart(entry) == entry[1] = "start"
IsFailure(entry) == entry[1] = "fail"
IsPoll(entry) == entry[1] = "call" /\ entry[2] = "cloudconvert.poll"
IsDownload(entry) == entry[1] = "call" /\ entry[2] = "cloudconvert.download"
IsStrategy(entry) == entry[1] = "strategy"

InLog(entry) == \E i \in 1..Len(log) : log[i] = entry

StageIndex(stage) == CHOOSE k \in 1..Len(StageOrder) : StageOrder[k] = stage

Returned == pc = "returned"

(* C1: the stages of a run start in the order Extract, Summarize, Encode,
   Convert, Annotate, Notify, none twice and none skipped (the started stages
   are a prefix of the order), and a stage starts only after every earlier
   stage has completed successfully. *)
C1_StagesStartInOrder ==
    LET starts == SelectSeq(log, IsStart)
    IN  /\ Len(starts) <= Len(StageOrder)
        /\ \A i \in 1..Len(starts) : starts[i] = Started(StageOrder[i])
        /\ \A i \in 1..Len(log) :
              IsStart(log[i]) =>
                 \A k \in 1..(StageIndex(log[i][2]) - 1) :
                    \E j \in 1..(i - 1) : log[j] = Succeeded(StageOrder[k])

C1_AllSixStagesRan ==
    /\ Returned
    /\ Len(SelectSeq(log, IsStart)) = Len(StageOrder)
    /\ InLog(Succeeded("Notify"))

StagePrefixes(stage) ==
    CASE stage = "Extract" -> {ExtractPrefix}
      [] stage = "Summarize" -> {SummaryPrefix}
      [] stage = "Encode" -> {QrPrefix}
      [] stage = "Convert" -> {CloudPrefix, LocalPrefix, NotFoundMessage}
      [] stage = "Annotate" -> {OverlayPrefix}
      [] stage = "Notify" -> {EmailPrefix}

(* C2: once a stage has failed nothing more happens in the run (no later stage
   starts, no further call is made): the run has returned with success = False
   and error holding the message of the stage that failed. *)
C2_FailureStopsRun ==
    \A i \in 1..Len(log) :
       IsFailure(log[i]) =>
          /\ i = Len(log)
          /\ Returned
          /\ results.success = FALSE
          /\ "error" \in DOMAIN results
          /\ results.error[1] \in StagePrefixes(log[i][2])

C2_ConvertFailedAfterEncode ==
    /\ Returned
    /\ InLog(Succeeded("Encode"))
    /\ log[Len(log)] = Failed("Convert")
    /\ results.error[1] = LocalPrefix

(* The converted document has been written at TempPdf by the Convert stage. *)
ConvertedWritten ==
    \/ InLog(Soffice("output"))
    \/ \E i \in 1..Len(log) : IsDownload(log[i]) /\ log[i][3].kind \in {"pdf", "garbage"}

RunFailed == Returned /\ "error" \in DOMAIN results

(* C3 as stated: in a failed run every artifact file written by an earlier
   stage still exists when the run returns. *)
C3_FailureKeepsEveryArtifact ==
    RunFailed =>
       /\ InLog(Succeeded("Encode")) => QrPath \in DOMAIN fs
       /\ ConvertedWritten => TempPdf \in DOMAIN fs
       /\ InLog(Succeeded("Annotate")) => FinalPdf \in DOMAIN fs

C3_ArtifactsOfFailedRun ==
    RunFailed =>
       /\ InLog(Succeeded("Encode")) => QrPath \in DOMAIN fs
       /\ ConvertedWritten /\ ~InLog(Started("Notify")) => TempPdf \in DOMAIN fs
       /\ InLog(Succeeded("Annotate")) => FinalPdf \in DOMAIN fs
       /\ InLog(Started("Notify")) => TempPdf \notin DOMAIN fs

FailureStep == pc' = "returned" /\ "error" \in DOMAIN results'

(* C3, amended: in a failed run every artifact file written by an earlier stage
   still exists when the run returns, except the converted document when the
   failing stage is Notify (the cleanup that precedes the notification has
   deleted it); the step that fails and handles the failure removes no file. *)
C3_FailureDeletesNothing ==
    /\ []C3_ArtifactsOfFailedRun
    /\ [][FailureStep => \A path \in DOMAIN fs : path \in DOMAIN fs']_vars

C3_OverlayFailedWithArtifacts ==
    /\ RunFailed
    /\ log[Len(log)] = Failed("Annotate")
    /\ QrPath \in DOMAIN fs
    /\ TempPdf \in DOMAIN fs

C4_SuccessfulRun ==
    results.success = TRUE =>
       /\ {"text_length", "summary", "qr_code_path", "final_pdf_path"} \subseteq DOMAIN results
       /\ results.text_length = Len(text)
       /\ results.summary = summary
       /\ results.qr_code_path = QrPath
       /\ results.final_pdf_path = FinalPdf
       /\ QrPath \in DOMAIN fs
       /\ FinalPdf \in DOMAIN fs
       /\ TempPdf \notin DOMAIN fs

(* A file is moved by a step when its content appears under a path that the
   step wrote. *)
Moved(path) ==
    \E to \in DOMAIN fs' :
        /\ fs'[to] = fs[path]
        /\ to \notin DOMAIN fs \/ fs[to] # fs'[to]

Deleted == {path \in (DOMAIN fs) \ (DOMAIN fs') : ~Moved(path)}

(* C4: a run that returns success = True returns text_length, summary, the
   code-image path and the output path, with the code image and the annotated
   document on disk and the converted document gone; and no step of a run
   deletes any file other than the converted document. *)
C4_SuccessLeavesOnlyOutputs ==
    /\ []C4_SuccessfulRun
    /\ [][Deleted \subseteq {TempPdf}]_vars

C4_SucceededWithMail ==
    /\ Returned
    /\ results.success = TRUE
    /\ "email_sent" \in DOMAIN results
    /\ InLog(Invoked("libreoffice"))

Requested == send_email /\ recipient_email \notin {None, ""}

FiveStagesSucceeded == \A k \in 1..5 : InLog(Succeeded(StageOrder[k]))

(* C5: the Notifier is invoked in a run exactly when the five document stages
   succeeded, the send flag is set and the recipient is non-empty; otherwise no
   notification is attempted, and a run whose five stages succeeded ends with
   success = True and without email_sent. *)
C5_NotifyIffRequested ==
    /\ InLog(Started("Notify")) => FiveStagesSucceeded /\ Requested
    /\ Returned /\ FiveStagesSucceeded /\ Requested => InLog(Started("Notify"))
    /\ Returned /\ FiveStagesSucceeded /\ ~Requested =>
          /\ ~InLog(Started("Notify"))
          /\ ~InLog(Called("smtp"))
          /\ results.success = TRUE
          /\ "email_sent" \notin DOMAIN results
          /\ "error" \notin DOMAIN results

C5_FlagSetRecipientEmpty ==
    /\ Returned
    /\ FiveStagesSucceeded
    /\ send_email
    /\ recipient_email = ""
    /\ results.success = TRUE

(* C6: when the notification is attempted and fails, the run returns
   success = False with the error set and without email_sent, while the
   annotated document and the code image are on disk and the output path is
   recorded in the result. *)
C6_NotifyFailureKeepsOutputs ==
    InLog(Failed("Notify")) =>
       /\ Returned
       /\ results.success = FALSE
       /\ "error" \in DOMAIN results
       /\ results.error[1] = EmailPrefix
       /\ "email_sent" \notin DOMAIN results
       /\ FinalPdf \in DOMAIN fs
       /\ QrPath \in DOMAIN fs
       /\ "final_pdf_path" \in DOMAIN results
       /\ results.final_pdf_path = FinalPdf

C6_SmtpFailed ==
    /\ Returned
    /\ InLog(Called("smtp"))
    /\ InLog(Failed("Notify"))

TimeoutCause == "ConversionTimeoutError"

(* C7: when the polling loop ends because 60 time-units elapsed without a
   terminal status, convert fails with the timeout error and there is no file
   at the destination path afterwards. *)
C7_TimeoutFailsWithoutFile ==
    InLog(Expired) /\ pc # "cc_download" =>
       /\ InLog(Failed("Convert"))
       /\ results.error = <<CloudPrefix, TimeoutCause>>
       /\ TempPdf \notin DOMAIN fs

(* C8: when a poll reports the status 'error', convert fails with the
   conversion-service error and downloads nothing: the failure is the last
   event of the run, the run returns success = False with the CloudConvert
   failure message, and neither a converted nor an annotated document exists. *)
C8_ServiceErrorFailsRun ==
    \A i \in 1..Len(log) :
       IsPoll(log[i]) /\ log[i][3] = "error" =>
          /\ i + 1 = Len(log)
          /\ log[i + 1] = Failed("Convert")
          /\ Returned
          /\ results.success = FALSE
          /\ "error" \in DOMAIN results
          /\ results.error = <<CloudPrefix, CloudFailedCause>>
          /\ \A j \in 1..Len(log) : ~IsDownload(log[j])
          /\ TempPdf \notin DOMAIN fs
          /\ FinalPdf \notin DOMAIN fs

C8_ErrorAtLaterPoll ==
    /\ Returned
    /\ \E i \in 3..Len(log) :
          /\ IsPoll(log[i]) /\ log[i][3] = "error"
          /\ IsPoll(log[i - 1]) /\ log[i - 1][3] = "processing"
          /\ IsPoll(log[i - 2])

(* C9: after a poll has observed 'finished' there is no further poll, and when
   the download that follows succeeds convert returns with exactly the
   downloaded bytes stored at the destination path. *)
C9_FinishedIsDownloaded ==
    \A i \in 1..Len(log) :
       IsPoll(log[i]) /\ log[i][3] = "finished" =>
          /\ \A j \in (i + 1)..Len(log) : ~IsPoll(log[j])
          /\ i < Len(log) /\ IsDownload(log[i + 1])
                      /\ log[i + 1][3].kind \notin {"HTTPError", "no answer"} =>
                /\ i + 2 <= Len(log)
                /\ log[i + 2] = Succeeded("Convert")
                /\ pc = "overlay" => /\ TempPdf \in DOMAIN fs
                                     /\ fs[TempPdf] = log[i + 1][3]

C9_FinishedAfterWaiting ==
    /\ pc = "overlay"
    /\ TempPdf \in DOMAIN fs
    /\ fs[TempPdf].kind = "pdf"
    /\ \E i \in 2..Len(log) :
          /\ IsPoll(log[i]) /\ log[i][3] = "finished"
          /\ IsPoll(log[i - 1]) /\ log[i - 1][3] = "processing"

IsRemoteCall(entry) ==
    /\ entry[1] = "call"
    /\ entry[2] \in {"cloudconvert.jobs", "cloudconvert.upload", "cloudconvert.poll",
                     "cloudconvert.download"}

IsLocalCall(entry) == entry[1] = "call" /\ entry[2] = "soffice"

KeyConfigured == config.cloudconvert_api_key \notin {None, ""}

(* C10: a run invokes at most one conversion strategy, chosen when the Convert
   stage starts: the remote one exactly when the CloudConvert key is
   configured, the local one otherwise; calls of the other strategy never
   occur, also after the chosen one failed. *)
C10_OneStrategyPerRun ==
    LET strategies == SelectSeq(log, IsStrategy)
    IN  /\ Len(strategies) <= 1
        /\ \A i \in 1..Len(log) :
              /\ log[i] = Started("Convert") =>
                    /\ i < Len(log)
                    /\ log[i + 1] = Invoked(IF KeyConfigured THEN "cloudconvert"
                                            ELSE "libreoffice")
              /\ IsRemoteCall(log[i]) => KeyConfigured
              /\ IsLocalCall(log[i]) => ~KeyConfigured

C10_RemoteFailedNoFallback ==
    /\ Returned
    /\ InLog(Invoked("cloudconvert"))
    /\ log[Len(log)] = Failed("Convert")

----------------------------------------------------------------------------
(* Two invocations of process_document on one DocumentAutomation object, by
   two threads of a caller.  The variables hold the locals of the invocation
   that takes the next step, other_run those of the suspended one; Switch
   hands the processor over.  No code of the class synchronizes the two. *)

Locals(r, recipient, flag, at, res, txt, sum, waited, status, trace) ==
    [run |-> r, recipient_email |-> recipient, send_email |-> flag, pc |-> at,
     results |-> res, text |-> txt, summary |-> sum, elapsed |-> waited,
     job_status |-> status, log |-> trace]

Entered(r, recipient, flag) ==
    Locals(r, recipient, flag, "extract", [success |-> FALSE, input_file |-> r.docx_path],
           <<>>, <<>>, 0, Unbound, <<>>)

Switch ==
    /\ other_run # NoRun
    /\ other_run' = Locals(run, recipient_email, send_email, pc, results, text, summary,
                           elapsed, job_status, log)
    /\ run' = other_run.run
    /\ recipient_email' = other_run.recipient_email
    /\ send_email' = other_run.send_email
    /\ pc' = other_run.pc
    /\ results' = other_run.results
    /\ text' = other_run.text
    /\ summary' = other_run.summary
    /\ elapsed' = other_run.elapsed
    /\ job_status' = other_run.job_status
    /\ log' = other_run.log
    /\ UNCHANGED <<config, caller, stdout, gemini_response, fs>>

OtherDocument == [kind |-> "docx", paragraphs |-> << <<"c">> >>]

(* A second document of the same file name in another directory, processed a
   second later; and a document of another name processed in the same second. *)
SecondRuns ==
    { [docx_path |-> <<"in2", "contract", ".docx">>, timestamp |-> "T2"],
      [docx_path |-> <<"in", "report", ".docx">>, timestamp |-> "T1"] }

ConcurrentInit ==
    /\ config = PlainConfig
    /\ caller = "process_document"
    /\ stdout = "utf-8"
    /\ gemini_response = [kind |-> "text", text |-> <<NoBreakSpace, "o", "k", "\n">>]
    /\ run = FirstRun
    /\ \E second \in SecondRuns :
          /\ other_run = Entered(second, None, FALSE)
          /\ fs = (FirstRun.docx_path :> PlainDocument) @@ (second.docx_path :> OtherDocument)
    /\ recipient_email = None
    /\ send_email = FALSE
    /\ pc = "extract"
    /\ results = [success |-> FALSE, input_file |-> DocxPath]
    /\ text = <<>>
    /\ summary = <<>>
    /\ elapsed = 0
    /\ job_status = Unbound
    /\ log = <<>>

ConcurrentNext ==
    \/ Extract
    \/ Summarize
    \/ Encode
    \/ ConvertLocal
    \/ LocalFound
    \/ LocalRename
    \/ Annotate
    \/ Cleanup
    \/ SkipEmail
    \/ Switch

ConcurrentSpec == ConcurrentInit /\ [][ConcurrentNext]_vars

----------------------------------------------------------------------------
(* send_email called on its own, with any recipient and any email
   configuration, for an annotated document that exists or not.  An exception
   leaves the function towards the caller. *)

AnyEmailConfigs ==
    [sender : {None, "", "sender@example.org"}, password : {None, "", "app-password"}]

NotifyInit ==
    /\ config \in [gemini_api_key : {"gm-key"}, cloudconvert_api_key : {None},
                   email : AnyEmailConfigs]
    /\ caller = "process_document"
    /\ stdout = "utf-8"
    /\ gemini_response = [kind |-> "text", text |-> <<NoBreakSpace, "o", "k", "\n">>]
    /\ run = FirstRun
    /\ other_run = NoRun
    /\ recipient_email \in Recipients
    /\ send_email \in BOOLEAN
    /\ fs \in {(DocxPath :> PlainDocument),
                (DocxPath :> PlainDocument) @@ (FinalPdf :> PdfOf(1))}
    /\ pc = "send_email"
    /\ results = [success |-> FALSE, input_file |-> DocxPath]
    /\ text = <<>>
    /\ summary = <<"o", "k">>
    /\ elapsed = 0
    /\ job_status = Unbound
    /\ log = <<>>

SendEmailCall ==
    /\ pc = "send_email"
    /\ IF ~EmailConfigured
       THEN /\ log' = log \o <<Started("Notify"), Raised(<<EmailPrefix, EmailConfigCause>>)>>
            /\ pc' = "raised"
       ELSE IF FinalPdf \notin DOMAIN fs
       THEN /\ log' = log \o <<Started("Notify"), Raised(<<EmailPrefix, "FileNotFoundError">>)>>
            /\ pc' = "raised"
       ELSE \/ /\ log' = log \o <<Started("Notify"), Called("smtp"),
                                  Raised(<<EmailPrefix, "SMTPException">>)>>
               /\ pc' = "raised"
            \/ /\ log' = log \o <<Started("Notify"), Called("smtp"), Succeeded("Notify")>>
               /\ pc' = "returned"
            \/ /\ log' = log \o <<Started("Notify"), Called("smtp"), Waiting>>
               /\ pc' = "blocked"
    /\ UNCHANGED <<fixed, recipient_email, send_email, fs, results, text, summary, elapsed,
                   job_status>>

NotifyNext == SendEmailCall

NotifySpec == NotifyInit /\ [][NotifyNext]_vars

----------------------------------------------------------------------------
(* The overlay step on converted documents of many shapes: every sequence of
   up to MaxOverlayPages pages of two kinds, and documents of 5 and of 100
   pages.  The run stands before step 5 of process_document, its first four
   steps done with the local converter. *)

PageKinds == {"text page", "figure page"}

LargePageCounts == {5, 100}

ConvertedDocuments ==
    { [kind |-> "pdf", pages |-> [i \in 1..n |-> <<FirstRun.docx_path, kinds[i]>>]] :
        n \in 1..MaxOverlayPages, kinds \in [1..MaxOverlayPages -> PageKinds] }
    \cup { [kind |-> "pdf",
             pages |-> [i \in 1..n |-> <<FirstRun.docx_path,
                                          IF i % 3 = 0 THEN "figure page" ELSE "text page">>]] :
             n \in LargePageCounts }

OverlayInit ==
    /\ config = PlainConfig
    /\ caller = "process_document"
    /\ stdout = "utf-8"
    /\ gemini_response = [kind |-> "text", text |-> <<NoBreakSpace, "o", "k", "\n">>]
    /\ run = FirstRun
    /\ other_run = NoRun
    /\ recipient_email = None
    /\ send_email = FALSE
    /\ text = extract_text_from_docx(PlainDocument.paragraphs)
    /\ summary = summarize_with_gemini(gemini_response.text)
    /\ \E converted \in ConvertedDocuments :
       \E image \in {[kind |-> "png", data |-> summary], Garbage} :
          fs = (DocxPath :> PlainDocument) @@ (QrPath :> image) @@ (TempPdf :> converted)
    /\ pc = "overlay"
    /\ results = [success |-> FALSE, input_file |-> DocxPath, text_length |-> Len(text),
                  summary |-> summary, qr_code_path |-> QrPath]
    /\ elapsed = 0
    /\ job_status = Unbound
    /\ log = <<Started("Extract"), Succeeded("Extract"),
               Started("Summarize"), Called("gemini"), Succeeded("Summarize"),
               Started("Encode"), QrCall, Succeeded("Encode"),
               Started("Convert"), Invoked("libreoffice"), Soffice("output"),
               Succeeded("Convert")>>

OverlayNext == Annotate

OverlaySpec == OverlayInit /\ [][OverlayNext]_vars

----------------------------------------------------------------------------
(* Extraction on documents of up to MaxParagraphs paragraphs, each empty,
   whitespace only, plain, padded with whitespace or holding a line break. *)

ParagraphTexts ==
    { <<>>, <<NoBreakSpace>>, <<"\t", NextLine>>, <<"a">>, <<" ", "b", UnitSeparator>>,
      <<"c", "\n", "d">> }

ParagraphLists ==
    { [i \in 1..n |-> texts[i]] :
        n \in 0..MaxParagraphs, texts \in [1..MaxParagraphs -> ParagraphTexts] }

WordDocuments == {[kind |-> "docx", paragraphs |-> list] : list \in ParagraphLists}

ExtractInit ==
    InitWith({PlainConfig}, {[kind |-> "text", text |-> <<NoBreakSpace, "o", "k", "\n">>]},
             WordDocuments, {None}, {FALSE})

ExtractNext == Extract

ExtractSpec == ExtractInit /\ [][ExtractNext]_vars

----------------------------------------------------------------------------
(* process_document called a second time on the same object and the same
   input after the first call returned, one clock second later.  other_run
   keeps what the first call returned.  The runs use the local converter. *)

Rerun ==
    /\ pc = "returned"
    /\ other_run = NoRun
    /\ other_run' = Locals(run, recipient_email, send_email, pc, results, text, summary,
                           elapsed, job_status, log)
    /\ run' = [docx_path |-> run.docx_path, timestamp |-> "T2"]
    /\ pc' = "extract"
    /\ results' = [success |-> FALSE, input_file |-> run.docx_path]
    /\ text' = <<>>
    /\ summary' = <<>>
    /\ elapsed' = 0
    /\ job_status' = Unbound
    /\ log' = <<>>
    /\ UNCHANGED <<config, caller, stdout, gemini_response, recipient_email, send_email, fs>>

RerunInit ==
    InitWith({PlainConfig}, GeminiOutcomes, Documents, {"to@example.org"}, BOOLEAN)

RerunNext ==
    \/ Extract
    \/ Summarize
    \/ Encode
    \/ ConvertLocal
    \/ LocalFound
    \/ LocalRename
    \/ Annotate
    \/ Cleanup
    \/ SendEmail
    \/ SkipEmail
    \/ Rerun

RerunSpec == RerunInit /\ [][RerunNext]_vars

----------------------------------------------------------------------------
(* Summarizer *)

(* The answer of the service without its surrounding whitespace, defined by
   position: from the first to the last non-whitespace character. *)
Inked(raw) == {i \in 1..Len(raw) : raw[i] \notin Whitespace}

FirstInk(raw) == CHOOSE i \in Inked(raw) : \A k \in Inked(raw) : i <= k

LastInk(raw) == CHOOSE i \in Inked(raw) : \A k \in Inked(raw) : k <= i

Trimmed(raw) ==
    IF Inked(raw) = {} THEN <<>> ELSE [i \in 1..(LastInk(raw) - FirstInk(raw) + 1) |->
                                         raw[FirstInk(raw) + i - 1]]

Summarized == gemini_response.kind = "text" /\ "summary" \in DOMAIN results

(* C11: for every service output the returned summary has at most 500
   characters; it is the trimmed output itself when that has at most 500
   characters, and otherwise the first 497 characters of the trimmed output
   followed by "...", 500 characters in all. *)
C11_SummaryWithinCap ==
    Summarized =>
        LET trimmed == Trimmed(gemini_response.text)
            returned == results.summary
        IN  /\ Len(returned) <= 500
            /\ returned = summary
            /\ Len(trimmed) <= 500 => returned = trimmed
            /\ Len(trimmed) > 500 =>
                   /\ Len(returned) = 500
                   /\ \A i \in 1..497 : returned[i] = trimmed[i]
                   /\ \A i \in 498..500 : returned[i] = "."

(* A padded answer whose trimmed text has exactly 500 characters was kept whole. *)
C11_ExactlyCapKept ==
    /\ Summarized
    /\ Len(gemini_response.text) > 500
    /\ Len(Trimmed(gemini_response.text)) = 500
    /\ Len(results.summary) = 500
    /\ results.summary[500] # "."

Shortened(full) == [i \in 1..500 |-> IF i <= 497 THEN full[i] ELSE "."]

(* C12 as stated: an answer of exactly 501 characters as the service sent it
   is returned as its first 497 characters followed by "...". *)
C12_Raw501Shortened ==
    (Summarized /\ Len(gemini_response.text) = 501) =>
        results.summary = Shortened(gemini_response.text)

(* C12: an answer whose text without surrounding whitespace has exactly 501
   characters is returned as the first 497 characters of that trimmed text
   followed by "...", 500 characters in all. *)
C12_Trimmed501Shortened ==
    (Summarized /\ Len(Trimmed(gemini_response.text)) = 501) =>
        /\ Len(results.summary) = 500
        /\ results.summary = Shortened(Trimmed(gemini_response.text))

(* A padded answer of 501 trimmed characters was shortened. *)
C12_Padded501Shortened ==
    /\ Summarized
    /\ Len(Trimmed(gemini_response.text)) = 501
    /\ Len(gemini_response.text) > 501
    /\ gemini_response.text[1] \in Whitespace
    /\ Len(results.summary) = 500
    /\ results.summary[500] = "."

(* C13: when extraction produced non-empty text, the summary handed to the
   Encode stage and recorded in the results is not empty; an answer that is
   empty or whitespace only makes the Summarize stage fail. *)
C13_SummaryNeverEmpty ==
    (Len(text) > 0 /\ pc \notin {"extract", "summarize"}) =>
        /\ "summary" \in DOMAIN results => results.summary # <<>>
        /\ \A i \in 1..Len(log) :
               (log[i][1] = "call" /\ log[i][2] = "qrserver") => log[i][3] # <<>>
        /\ (gemini_response.kind = "text" /\ Inked(gemini_response.text) = {}) =>
               InLog(Failed("Summarize"))

----------------------------------------------------------------------------
(* External calls of a run *)

CallsTo(service) ==
    Cardinality({i \in 1..Len(log) : log[i][1] = "call" /\ log[i][2] = service})

Times(entry) == Cardinality({i \in 1..Len(log) : log[i] = entry})

OneShotServices ==
    {"gemini", "qrserver", "cloudconvert.jobs", "cloudconvert.upload",
     "cloudconvert.download", "soffice", "smtp"}

Creates(path) == path \notin DOMAIN fs /\ path \in DOMAIN fs'

C14_CallsAtMostOnce ==
    /\ \A service \in OneShotServices : CallsTo(service) <= 1
    /\ Times(Succeeded("Encode")) <= 1
    /\ Times(Succeeded("Convert")) <= 1
    /\ (Returned /\ results.success = TRUE) =>
           /\ CallsTo("gemini") = 1
           /\ CallsTo("qrserver") = 1
           /\ CallsTo("cloudconvert.download") + CallsTo("soffice") = 1
           /\ Times(Succeeded("Encode")) = 1
           /\ Times(Succeeded("Convert")) = 1

(* C14: in a run the summarization request, the encoding request, the job
   creation, the upload, the result download, the local converter and the
   mail send are each issued at most once; the code image and the converted
   document are each created at most once, and exactly once in a run that
   succeeds. *)
C14_NoCallRepeated ==
    /\ []C14_CallsAtMostOnce
    /\ [][/\ Creates(QrPath) => ~InLog(Succeeded("Encode"))
          /\ Creates(TempPdf) => ~InLog(Succeeded("Convert"))]_vars

(* A successful remote run with mail: every kind of call was made, some polls
   more than once. *)
C14_EveryServiceCalledOnce ==
    /\ Returned
    /\ results.success = TRUE
    /\ \A service \in OneShotServices \ {"soffice"} : CallsTo(service) = 1
    /\ CallsTo("cloudconvert.poll") > 1

----------------------------------------------------------------------------
(* Concurrent runs *)

OutputsOf(r) ==
    { <<"output", r.docx_path[2], part, r.timestamp, extension>> :
        part \in {"_qr_", "_temp_", "_final_"}, extension \in {".png", ".pdf"} }

DistinctOutputs == OutputsOf(run) \cap OutputsOf(other_run.run) = {}

(* The document a PDF file was converted from. *)
ConvertedFrom(content) == {content.pages[i][1] : i \in 1..Len(content.pages)}

AnnotatedOwnDocument(r, res) ==
    res.success = TRUE =>
        /\ res.final_pdf_path \in DOMAIN fs
        /\ ConvertedFrom(fs[res.final_pdf_path]) = {r.docx_path}

FoundOwnConversion(res, trace) ==
    (\E i \in 1..Len(trace) : trace[i] = Soffice("output")) =>
        ("error" \in DOMAIN res => res.error[2] # "FileNotFoundError")

TouchesOwnFilesOnly ==
    \A path \in DOMAIN fs :
        (fs[path].kind = "pdf" /\ (path \notin DOMAIN fs' \/ fs'[path] # fs[path])) =>
            ConvertedFrom(fs[path]) = {DocxPath}

(* C15: two concurrent runs on independent documents with distinct output
   paths do not interfere: no step of a run overwrites, renames or deletes a
   file converted from the other run's document, a successful run's annotated
   document consists of pages of its own document, and a run whose converter
   wrote its output finds it, as it would when executed alone. *)
C15_RunsDoNotInterfere ==
    /\ [](DistinctOutputs =>
            /\ AnnotatedOwnDocument(run, results)
            /\ AnnotatedOwnDocument(other_run.run, other_run.results)
            /\ FoundOwnConversion(results, log)
            /\ FoundOwnConversion(other_run.results, other_run.log))
    /\ [][DistinctOutputs => TouchesOwnFilesOnly]_vars

----------------------------------------------------------------------------
(* Notifier *)

Blank(value) == value = None \/ value = ""

SomethingMissing ==
    Blank(config.email.sender) \/ Blank(config.email.password) \/ Blank(recipient_email)

IsConfigurationError(entry) ==
    /\ entry[1] = "raise"
    /\ entry[2] = <<"Error sending email", "Email configuration incomplete">>

RelayContacted == \E i \in 1..Len(log) : log[i][1] = "call" /\ log[i][2] = "smtp"

(* C16: a call of the Notifier in which the sender, the credential or the
   recipient is absent or empty ends in the configuration error without any
   connection to the mail relay; with the three values present the
   configuration error does not occur. *)
C16_IncompleteConfigFailsFirst ==
    pc # "send_email" =>
        /\ SomethingMissing =>
               /\ pc = "raised"
               /\ IsConfigurationError(log[Len(log)])
               /\ ~RelayContacted
        /\ ~SomethingMissing => \A i \in 1..Len(log) : ~IsConfigurationError(log[i])

(* The Notifier was called with sender and credential configured, an existing
   document and an empty recipient. *)
C16_EmptyRecipientRejected ==
    /\ pc = "raised"
    /\ ~Blank(config.email.sender)
    /\ ~Blank(config.email.password)
    /\ recipient_email = ""
    /\ FinalPdf \in DOMAIN fs
    /\ IsConfigurationError(log[Len(log)])
    /\ ~RelayContacted

----------------------------------------------------------------------------
(* Overlay *)

Annotated == pc = "cleanup" /\ FinalPdf \in DOMAIN fs /\ TempPdf \in DOMAIN fs

LastOf(page) == page[Len(page)]

WithoutLast(page) == SubSeq(page, 1, Len(page) - 1)

(* C17: the annotated document has as many pages as the converted document,
   and its page i is page i of the converted document with one more layer on
   top, the same layer on every page: the caption "Resumo" with the code
   image. *)
C17_OverlayKeepsPages ==
    Annotated =>
        LET input == fs[TempPdf].pages
            output == fs[FinalPdf].pages
        IN  /\ Len(input) >= 1 => Len(output) = Len(input)
            /\ \A i \in 1..Len(input) :
                   /\ WithoutLast(output[i]) = input[i]
                   /\ LastOf(output[i]) = [caption |-> "Resumo", image |-> fs[QrPath]]
                   /\ LastOf(output[i]) = LastOf(output[1])

(* A converted document of 100 pages was annotated. *)
C17_HundredPagesAnnotated ==
    /\ Annotated
    /\ Len(fs[TempPdf].pages) = 100
    /\ Len(fs[FinalPdf].pages) = 100
    /\ LastOf(fs[FinalPdf].pages[100]).caption = "Resumo"

----------------------------------------------------------------------------
(* Extraction *)

Paragraphs == fs[DocxPath].paragraphs

(* The paragraphs holding at least one non-whitespace character. *)
Kept == {i \in 1..Len(Paragraphs) :
            \E k \in 1..Len(Paragraphs[i]) : Paragraphs[i][k] \notin Whitespace}

RECURSIVE LengthThrough(_)
(* Characters of the kept paragraphs up to paragraph i, one separator after each. *)
LengthThrough(i) ==
    IF i = 0 THEN 0
    ELSE LengthThrough(i - 1) + (IF i \in Kept THEN Len(Paragraphs[i]) + 1 ELSE 0)

Extracted == \E i \in 1..Len(log) : log[i][1] = "ok" /\ log[i][2] = "Extract"

(* C18: the extracted text consists of the paragraphs that hold a
   non-whitespace character, unchanged and in document order, with exactly one
   newline between consecutive ones; it is empty when no paragraph is kept and
   non-empty otherwise, and text_length is its length. *)
C18_ExtractKeepsNonBlank ==
    Extracted =>
        /\ Len(text) = (IF Kept = {} THEN 0 ELSE LengthThrough(Len(Paragraphs)) - 1)
        /\ \A i \in Kept :
               /\ \A k \in 1..Len(Paragraphs[i]) :
                      text[LengthThrough(i - 1) + k] = Paragraphs[i][k]
               /\ (\E j \in Kept : j > i) => text[LengthThrough(i)] = "\n"
        /\ Kept # {} => Len(text) > 0
        /\ Kept = {} => text = <<>>
        /\ results.text_length = Len(text)

(* A padded paragraph, a whitespace-only paragraph and a plain one: the
   second was skipped, the first kept with its padding. *)
C18_BlankBetweenSkipped ==
    /\ Extracted
    /\ Len(Paragraphs) = 3
    /\ Kept = {1, 3}
    /\ Paragraphs[2] # <<>>
    /\ Paragraphs[2] = <<NoBreakSpace>>
    /\ text = <<" ", "b", UnitSeparator, "\n", "a">>

----------------------------------------------------------------------------
(* Encoder *)

EncoderCalls == {i \in 1..Len(log) : log[i][1] = "call" /\ log[i][2] = "qrserver"}

EncodeReached == \E i \in 1..Len(log) : log[i][1] = "start" /\ log[i][2] = "Encode"

(* C19: a run that reaches the Encode stage calls the encoder with the
   summary that the Summarize stage returned and that the results hold, with
   size 300x300 and error-correction level L. *)
C19_EncoderGetsSummary ==
    EncodeReached =>
        /\ EncoderCalls # {}
        /\ \A i \in EncoderCalls :
               /\ gemini_response.kind = "text"
               /\ log[i][3] = results.summary
               /\ log[i][3] = Trimmed(gemini_response.text)
               /\ log[i][4] = "300x300"
               /\ log[i][6] = "L"

(* The encoder was called in a run that extracted a text different from the
   summary. *)
C19_SummaryEncoded ==
    /\ EncodeReached
    /\ text # results.summary
    /\ results.summary = <<"o", "k">>
    /\ \E i \in EncoderCalls : log[i][3] = <<"o", "k">>

----------------------------------------------------------------------------
(* Second run on the same input *)

SecondRun == other_run # NoRun

SameField(field) ==
    /\ field \in DOMAIN results <=> field \in DOMAIN other_run.results
    /\ field \in DOMAIN results => results[field] = other_run.results[field]

C20_SecondRunAgrees ==
    SecondRun =>
        /\ run.docx_path = other_run.run.docx_path
        /\ run.timestamp # other_run.run.timestamp
        /\ pc = "returned" => SameField("summary") /\ SameField("text_length")
        /\ results.success = TRUE => InLog(Soffice("output"))

(* C20: a second run on the same input, with the same configuration, the
   same answer of the summarization service and another timestamp returns
   the same summary and text_length as the first (or lacks them as the first
   did); it succeeds only with a conversion its own converter wrote, as a run
   that starts in an empty output directory does, and no step changes the
   input document. *)
C20_RerunSameSummaryAndLength ==
    /\ []C20_SecondRunAgrees
    /\ [][fs'[run.docx_path] = fs[run.docx_path]]_vars

----------------------------------------------------------------------------
(* Result of a run *)

SomeStageFailed == \E i \in 1..Len(log) : log[i][1] = "fail"

C21_ResultTellsOutcome ==
    /\ pc = "returned" => (results.success = TRUE <=> "error" \notin DOMAIN results)
    /\ SomeStageFailed => (pc = "returned" /\ "error" \in DOMAIN results)
    /\ results.success = TRUE => pc = "returned"

(* C21: every run ends by returning its results, whatever the stages did; a
   failed stage puts the run into the returned state with an error entry; the
   returned results have success = True exactly when they have no error entry;
   and nothing happens in a run after it returned.  A run whose standard
   output cannot encode the progress messages ends by an exception instead. *)
C21_EveryRunReturnsOnce ==
    /\ []C21_ResultTellsOutcome
    /\ [][pc # "returned"]_vars
    /\ <>(pc = "returned")

----------------------------------------------------------------------------
(* Error messages *)

(* What a message says about its origin: the text before its first ": ". *)
OriginSaid(prefix) ==
    CASE prefix = "Error extracting text from Word document" -> "extraction"
      [] prefix = "Error generating summary with Gemini" -> "summary"
      [] prefix = "Error generating QR code" -> "encoding"
      [] prefix = "Error converting to PDF with CloudConvert" -> "remote conversion"
      [] prefix = "Error converting to PDF" -> "local conversion"
      [] prefix = "LibreOffice not found. Please install LibreOffice" -> "local conversion"
      [] prefix = "Error adding QR code to PDF" -> "overlay"
      [] prefix = "Error sending email" -> "notification"
      [] OTHER -> "unknown"

(* The stage that failed, as the trace of the run shows it. *)
FailedStage == log[Len(log)][2]

StrategyUsed ==
    LET i == CHOOSE k \in 1..Len(log) : log[k][1] = "strategy" IN log[i][2]

FailureOrigin ==
    CASE FailedStage = "Extract" -> "extraction"
      [] FailedStage = "Summarize" -> "summary"
      [] FailedStage = "Encode" -> "encoding"
      [] FailedStage = "Convert" /\ StrategyUsed = "cloudconvert" -> "remote conversion"
      [] FailedStage = "Convert" /\ StrategyUsed = "libreoffice" -> "local conversion"
      [] FailedStage = "Annotate" -> "overlay"
      [] FailedStage = "Notify" -> "notification"

(* C22: the error of a failed run is a non-empty message whose leading text
   tells which of extraction, summary, encoding, remote conversion, local
   conversion, overlay and notification failed; the origin is a function of
   the message, so no two of them share a message. *)
C22_ErrorNamesFailedStage ==
    (pc = "returned" /\ "error" \in DOMAIN results) =>
        /\ log[Len(log)][1] = "fail"
        /\ results.error[1] # ""
        /\ results.error[2] # ""
        /\ OriginSaid(results.error[1]) = FailureOrigin

(* The local converter was not installed: the second message of that stage. *)
C22_LocalToolMissing ==
    /\ pc = "returned"
    /\ "error" \in DOMAIN results
    /\ results.error[1] = "LibreOffice not found. Please install LibreOffice"
    /\ FailedStage = "Convert"
    /\ StrategyUsed = "libreoffice"

----------------------------------------------------------------------------
(* Source document *)

SourcePath == results.input_file

(* C23: the source document exists at its path in every state of a run, and
   no step of any stage changes its content, moves it or removes it. *)
C23_SourceUntouched ==
    /\ [](SourcePath \in DOMAIN fs)
    /\ [][/\ SourcePath' = SourcePath
          /\ SourcePath \in DOMAIN fs'
          /\ fs'[SourcePath] = fs[SourcePath]]_vars

(* A successful run with the local converter and mail, the source still a
   Word document. *)
C23_SourceKeptAfterSuccess ==
    /\ pc = "returned"
    /\ results.success = TRUE
    /\ "email_sent" \in DOMAIN results
    /\ \E i \in 1..Len(log) : log[i][1] = "call" /\ log[i][2] = "soffice"
    /\ SourcePath \in DOMAIN fs
    /\ fs[SourcePath].kind = "docx"

----------------------------------------------------------------------------
(* Remote strategy *)

FinishedSeenBefore(j) ==
    \E i \in 1..(j - 1) : IsPoll(log[i]) /\ log[i][3] = "finished"

RemoteChosen == \E i \in 1..Len(log) : IsStrategy(log[i]) /\ log[i][2] = "cloudconvert"

(* C24: in the remote strategy a download request is issued, and the
   destination file written, only after a poll has observed the status
   'finished'. *)
C24_DownloadOnlyAfterFinished ==
    /\ \A j \in 1..Len(log) : IsDownload(log[j]) => FinishedSeenBefore(j)
    /\ (RemoteChosen /\ TempPdf \in DOMAIN fs) => FinishedSeenBefore(Len(log) + 1)

(* The place of a remote call in the job protocol. *)
ProtocolStep(entry) ==
    CASE entry[2] = "cloudconvert.jobs" -> 1
      [] entry[2] = "cloudconvert.upload" -> 2
      [] entry[2] = "cloudconvert.poll" -> 3
      [] entry[2] = "cloudconvert.download" -> 4

RemoteCalls == {i \in 1..Len(log) : IsRemoteCall(log[i])}

StepsCalled == {ProtocolStep(log[i]) : i \in RemoteCalls}

(* C25: the remote calls of a run follow the job protocol: job creation,
   then upload, then status polls, then the result fetch, none of the first
   two and of the last repeated, none without the ones before it; and when a
   call fails the conversion fails there, with no call after it. *)
C25_ProtocolInOrder ==
    /\ \A i \in RemoteCalls :
           ProtocolStep(log[i]) # 3 =>
               \A j \in RemoteCalls :
                   /\ j < i => ProtocolStep(log[j]) < ProtocolStep(log[i])
                   /\ j > i => ProtocolStep(log[j]) > ProtocolStep(log[i])
    /\ \A step \in StepsCalled : step > 1 => (step - 1) \in StepsCalled
    /\ \A i \in 1..Len(log) :
           (log[i][1] = "fail" /\ log[i][2] = "Convert") =>
               /\ i = Len(log)
               /\ pc = "returned"
    /\ pc \in {"cc_upload", "cc_poll", "cc_download"} =>
           \A i \in 1..Len(log) : log[i][1] # "fail"

(* The whole protocol was walked through and the result fetch failed. *)
C25_FetchFailedLast ==
    /\ pc = "returned"
    /\ StepsCalled = {1, 2, 3, 4}
    /\ Cardinality(RemoteCalls) > 5
    /\ log[Len(log)] = <<"fail", "Convert">>
    /\ IsDownload(log[Len(log) - 1])

PollsMade == Cardinality({i \in 1..Len(log) : IsPoll(log[i])})

TerminalPollSeen ==
    \E i \in 1..Len(log) : IsPoll(log[i]) /\ log[i][3] \in {"finished", "error"}

C26_PollsBounded ==
    /\ PollsMade <= 30
    /\ pc = "cc_poll" => /\ elapsed >= 2 * PollsMade
                         /\ ~TerminalPollSeen

(* C26: the polling loop ends: at the first poll that observes 'finished' or
   'error', or when 60 seconds have passed since polling began; no poll is
   started at or after 60 seconds; each poll that leaves the job unfinished
   is followed by 2 seconds of sleep, so that n polls take at least 2n
   seconds and at most 30 polls are made.  A run blocked in a status request
   is still inside the loop. *)
C26_PollingTerminates ==
    /\ []C26_PollsBounded
    /\ [][PollsMade' > PollsMade => (pc = "cc_poll" /\ elapsed < 60 /\ ~TerminalPollSeen)]_vars
    /\ (pc = "cc_poll") ~> (pc \notin {"cc_poll", "blocked"})

----------------------------------------------------------------------------
(* Local strategy *)

LocalChosen == \E i \in 1..Len(log) : IsStrategy(log[i]) /\ log[i][2] = "libreoffice"

LocalReturned ==
    LocalChosen /\ \E i \in 1..Len(log) : log[i][1] = "ok" /\ log[i][2] = "Convert"

(* C27: when the local strategy has returned without error the converted
   document is at the destination path and no longer under the name the tool
   gave it; a tool that wrote no output makes the conversion fail; after a
   non-zero exit status the conversion has failed and nothing was renamed. *)
C27_LocalSuccessHasFile ==
    /\ (LocalReturned /\ pc = "overlay") =>
           /\ TempPdf \in DOMAIN fs
           /\ fs[TempPdf].kind = "pdf"
           /\ GeneratedPdf \notin DOMAIN fs
    /\ (\E i \in 1..Len(log) : IsLocalCall(log[i]) /\ log[i][3] = "no output") =>
           (pc # "lo_exists" => ~LocalReturned)
    /\ (\E i \in 1..Len(log) : IsLocalCall(log[i]) /\ log[i][3] = "non-zero exit") =>
           /\ ~LocalReturned
           /\ TempPdf \notin DOMAIN fs

----------------------------------------------------------------------------
(* Converted document as a temporary *)

OverlaySucceeded == \E i \in 1..Len(log) : log[i][1] = "ok" /\ log[i][2] = "Annotate"

NotifyAttempted == \E i \in 1..Len(log) : log[i][1] = "start" /\ log[i][2] = "Notify"

C28_GoneAfterOverlay ==
    /\ (OverlaySucceeded /\ pc = "returned") => TempPdf \notin DOMAIN fs
    /\ NotifyAttempted => TempPdf \notin DOMAIN fs
    /\ pc = "email" => TempPdf \notin DOMAIN fs

(* C28: once the overlay stage has produced the annotated document, the
   converted document is gone before a notification is attempted and before
   the run returns, also when the notification then fails; and no step
   removes the converted document unless the overlay stage has succeeded. *)
C28_TempDeletedAfterOverlayOnly ==
    /\ []C28_GoneAfterOverlay
    /\ [][(TempPdf \in DOMAIN fs /\ TempPdf \notin DOMAIN fs') =>
             (OverlaySucceeded /\ FinalPdf \in DOMAIN fs)]_vars

(* The notification failed at the mail relay: the annotated document is
   there, the converted one is not. *)
C28_GoneThoughMailFailed ==
    /\ pc = "returned"
    /\ results.success = FALSE
    /\ log[Len(log)] = <<"fail", "Notify">>
    /\ log[Len(log) - 1] = <<"call", "smtp">>
    /\ FinalPdf \in DOMAIN fs
    /\ TempPdf \notin DOMAIN fs

----------------------------------------------------------------------------
(* Fields of the results *)

Has(field) == field \in DOMAIN results

StageDone(stage) == \E i \in 1..Len(log) : log[i][1] = "ok" /\ log[i][2] = stage

StageBegun(stage) == \E i \in 1..Len(log) : log[i][1] = "start" /\ log[i][2] = stage

(* C29: in every state of a run the recorded fields follow the stage order:
   final_pdf_path only with qr_code_path, qr_code_path only with summary,
   summary only with text_length, each recorded exactly when its stage has
   succeeded; email_sent is recorded, as True, only after the mail was sent;
   and success is True only when every stage that was begun has succeeded. *)
C29_FieldsFollowStages ==
    /\ Has("final_pdf_path") => Has("qr_code_path")
    /\ Has("qr_code_path") => Has("summary")
    /\ Has("summary") => Has("text_length")
    /\ Has("text_length") <=> StageDone("Extract")
    /\ Has("summary") <=> StageDone("Summarize")
    /\ Has("qr_code_path") <=> StageDone("Encode")
    /\ Has("final_pdf_path") <=> StageDone("Annotate")
    /\ Has("email_sent") =>
           /\ results.email_sent = TRUE
           /\ StageDone("Notify")
           /\ \E i \in 1..Len(log) : log[i][1] = "call" /\ log[i][2] = "smtp"
    /\ results.success = TRUE =>
           /\ \A i \in 1..Len(log) : log[i][1] # "fail"
           /\ \A k \in 1..6 :
                  StageBegun(StageOrder[k]) => StageDone(StageOrder[k])
           /\ \A k \in 1..5 : StageDone(StageOrder[k])

(* The conversion failed: the results stop at the code-image path. *)
C29_FieldsStopAtCodeImage ==
    /\ pc = "returned"
    /\ Has("text_length") /\ Has("summary") /\ Has("qr_code_path")
    /\ ~Has("final_pdf_path")
    /\ ~Has("email_sent")
    /\ log[Len(log)] = <<"fail", "Convert">>

====
